---- MODULE Spec2Model ----
(***************************************************************************)
(* Model of src/data/make_dataset.py: the brand extractor                   *)
(* (brand_preprocess), the age normalizer (age_preprocess) and the batch    *)
(* run of main (aggregate the *.csv files, transform, write five outputs).  *)
(*                                                                          *)
(* Text is a sequence of one-character strings.  A missing cell (NaN) of a  *)
(* text column is the one-element sequence NA, a missing cell of a label    *)
(* or numeric column is NaN / NaNAge.                                       *)
(***************************************************************************)
EXTENDS Integers, Sequences, FiniteSets, TLC

VARIABLES row, trim_len, brand,        \* one call of brand_preprocess
          arow, age,                   \* one call of age_preprocess
          files, p, aggReports, pc, written, exc   \* one run of main

vars == <<row, trim_len, brand, arow, age, files, p, aggReports, pc, written, exc>>

brandVars == <<row, trim_len, brand>>
ageVars == <<arow, age>>
mainVars == <<files, p, aggReports, pc, written, exc>>

----------------------------------------------------------------------------
(* Bounds of the model. *)

MaxLen == 5        \* longest product text
MaxTrim == 3       \* largest trim_len
MaxAge == 12       \* largest patient_age
MaxFiles == 2      \* most *.csv files in the input directory
MaxRows == 2       \* most rows in one file

----------------------------------------------------------------------------
(* Characters and text *)

Alphabet == {"a", "A", "k", " ", "-"}

NA == <<"<NA>">>

isna(x) == x = NA

\* string.punctuation, restricted to the alphabet
punctuation == {"-"}

\* the part of stopwords.words("english") that the alphabet can spell
stopwords == {<<"a">>}

lower(c) == IF c = "A" THEN "a" ELSE c

upper(c) == IF c = "a" THEN "A" ELSE IF c = "k" THEN "K" ELSE c

Lower(s) == [i \in 1..Len(s) |-> lower(s[i])]

Upper(s) == [i \in 1..Len(s) |-> upper(s[i])]

\* regexPunctuation.sub("", s)
StripPunctuation(s) == SelectSeq(s, LAMBDA c : c \notin punctuation)

\* s.split(" "): one token per separating space, empty tokens kept
RECURSIVE Split(_)
Split(s) ==
    IF \A i \in 1..Len(s) : s[i] /= " "
    THEN <<s>>
    ELSE LET i == CHOOSE j \in 1..Len(s) :
                      s[j] = " " /\ \A k \in 1..(j - 1) : s[k] /= " "
         IN <<SubSeq(s, 1, i - 1)>> \o Split(SubSeq(s, i + 1, Len(s)))

\* " ".join(tokens)
RECURSIVE Join(_)
Join(tokens) ==
    IF Len(tokens) = 0 THEN <<>>
    ELSE IF Len(tokens) = 1 THEN tokens[1]
    ELSE tokens[1] \o <<" ">> \o Join(Tail(tokens))

\* tokens[:k]
Slice(tokens, k) ==
    IF k >= 0
    THEN SubSeq(tokens, 1, IF k < Len(tokens) THEN k ELSE Len(tokens))
    ELSE SubSeq(tokens, 1, IF Len(tokens) + k > 0 THEN Len(tokens) + k ELSE 0)

----------------------------------------------------------------------------
(* brand_preprocess *)

NutsSeed == "Nuts/Edible Seed"
VitMin == "Vit/Min/Prot/Unconv Diet(Human/Animal)"
Cosmetics == "Cosmetics"
NaN == "NaN"

\* trim_len=2 in the signature
DefaultTrim == 2

Categories == {NutsSeed, VitMin, Cosmetics, NaN}

TrimCategories == {NutsSeed, VitMin}

Str(s) == [tag |-> "str", val |-> s]
Missing == [tag |-> "NA", val |-> <<>>]
Raised(e) == [tag |-> e, val |-> <<>>]
NotCalled == [tag |-> "pending", val |-> <<>>]

NameList(product) ==
    LET words == Split(Lower(StripPunctuation(product)))
        kept == SelectSeq(words, LAMBDA w : w \notin stopwords)
    IN [i \in 1..Len(kept) |-> Upper(kept[i])]

\* the guard tests the category instead of the product
RowIsMissingCategoryOnly(r) == r.category = NaN

RowIsMissing(r) == isna(r.product) \/ isna(r.product)

\* the empty-list guard is absent
EmptyGuardAbsent(nameList) == FALSE

EmptyGuard(nameList) == Len(nameList) = 0

\* only the first of the two categories is tested
InTrimCategoriesFirstOnly(category) == category = NutsSeed

InTrimCategories(category) == category \in TrimCategories

Select(nameList, category, trim) ==
    IF InTrimCategories(category)
    THEN IF Len(nameList) < trim
         THEN Str(Join(nameList))
         ELSE Str(Join(Slice(nameList, trim)))
    ELSE IF Len(nameList) = 0
         THEN Raised("IndexError")
         ELSE Str(nameList[1])

brand_preprocess(r, trim) ==
    IF RowIsMissing(r) THEN Missing
    ELSE LET nameList == NameList(r.product)
         IN IF EmptyGuard(nameList) THEN Str(<<>>)
            ELSE Select(nameList, r.category, trim)

Products == UNION {[1..n -> Alphabet] : n \in 0..MaxLen} \cup {NA}

BrandRows == [product : Products, category : Categories]

BrandInit ==
    /\ row \in BrandRows
    /\ trim_len \in 0..MaxTrim
    /\ brand = NotCalled

BrandIdle ==
    /\ row = [product |-> NA, category |-> NaN]
    /\ trim_len = DefaultTrim
    /\ brand = NotCalled

BrandCall ==
    /\ brand = NotCalled
    /\ brand' = brand_preprocess(row, trim_len)
    /\ UNCHANGED <<row, trim_len, ageVars, mainVars>>

----------------------------------------------------------------------------
(* age_preprocess.  Numbers are fixed-point, in units of 1/Scale year. *)

Scale == 10000

\* round(n / d, 4), in units of 1/Scale
Round4(n, d) == (2 * Scale * n + d) \div (2 * d)

\* the decade key is spelled in lower case
age_conv_lowercase ==
    [u \in {"month(s)", "year(s)", "day(s)", "decade(s)", "week(s)"} |->
        CASE u = "month(s)" -> <<1, 12>>
          [] u = "year(s)" -> <<1, 1>>
          [] u = "day(s)" -> <<1, 365>>
          [] u = "decade(s)" -> <<10, 1>>
          [] u = "week(s)" -> <<1, 52>>]

\* the conversion table: unit label |-> <<numerator, denominator>>
age_conv ==
    [u \in {"month(s)", "year(s)", "day(s)", "Decade(s)", "week(s)"} |->
        CASE u = "month(s)" -> <<1, 12>>
          [] u = "year(s)" -> <<1, 1>>
          [] u = "day(s)" -> <<1, 365>>
          [] u = "Decade(s)" -> <<10, 1>>
          [] u = "week(s)" -> <<1, 52>>]

Present(n) == [na |-> FALSE, v |-> n]
NaNAge == [na |-> TRUE, v |-> 0]

Num(x) == [tag |-> "num", val |-> x]
AgeRaised(e) == [tag |-> e, val |-> 0]
AgeNotCalled == [tag |-> "pending", val |-> 0]

Sentinel == Num(-Scale)

\* only the age is tested for a missing value
AgeIsMissingAgeOnly(a, unit) == a.na

AgeIsMissing(a, unit) == a.na \/ unit = NaN

Factor(unit) == Round4(age_conv[unit][1], age_conv[unit][2])

\* the product is rounded, not the factor
LookupRoundsProduct(a, unit) ==
    IF unit \in DOMAIN age_conv
    THEN Num(Round4(a.v * age_conv[unit][1], age_conv[unit][2]))
    ELSE AgeRaised("KeyError")

Lookup(a, unit) ==
    IF unit \in DOMAIN age_conv
    THEN Num(a.v * Factor(unit))
    ELSE AgeRaised("KeyError")

age_preprocess(r) ==
    LET unit == r.age_units
        a == r.patient_age
    IN IF AgeIsMissing(a, unit) THEN Sentinel ELSE Lookup(a, unit)

Ages == {NaNAge} \cup {Present(n) : n \in 0..MaxAge}

Units == {"month(s)", "year(s)", "day(s)", "Decade(s)", "week(s)",
          "decade(s)", "Not Available", NaN}

AgeRows == [patient_age : Ages, age_units : Units]

AgeInit ==
    /\ arow \in AgeRows
    /\ age = AgeNotCalled

AgeIdle ==
    /\ arow = [patient_age |-> NaNAge, age_units |-> NaN]
    /\ age = AgeNotCalled

AgeCall ==
    /\ age = AgeNotCalled
    /\ age' = age_preprocess(arow)
    /\ UNCHANGED <<arow, brandVars, mainVars>>
----------------------------------------------------------------------------
(* main: aggregate the *.csv files, transform, write the five outputs. *)

\* aggReports is None until the first file is read, a table afterwards
None == [df |-> FALSE, rows |-> <<>>]

DataFrame(rows) == [df |-> TRUE, rows |-> rows]

\* what the outcomes cell of a row holds: NaN, or the comma-separated items
NoOutcomes == <<NaN>>

GoodRow ==
    [product |-> <<"a", " ", "k">>, category |-> Cosmetics,
     patient_age |-> Present(2), age_units |-> "year(s)",
     outcomes |-> <<"o1", "o2">>]

UnknownUnitRow ==
    [product |-> NA, category |-> NaN,
     patient_age |-> Present(1), age_units |-> "Not Available",
     outcomes |-> <<"o1">>]

NoOutcomesRow ==
    [product |-> <<"k">>, category |-> NutsSeed,
     patient_age |-> NaNAge, age_units |-> "Not Available",
     outcomes |-> NoOutcomes]

RawRows == {GoodRow, UnknownUnitRow, NoOutcomesRow}

Tables == UNION {[1..n -> RawRows] : n \in 0..MaxRows}

Directories == UNION {[1..n -> Tables] : n \in 0..MaxFiles}

RECURSIVE Concat(_)
Concat(tables) ==
    IF Len(tables) = 0 THEN <<>>
    ELSE tables[1] \o Concat(Tail(tables))

OutputOrder ==
    <<"clean_data.csv", "processed_data.csv", "exploded_data.csv",
      "clean_data_time.csv", "exploded_data_time.csv">>

to_csv(name) == written' = Append(written, name)

Crash(e) ==
    /\ pc' = "crashed"
    /\ exc' = e
    /\ UNCHANGED <<aggReports, written>>

MainInit ==
    /\ files \in Directories
    /\ p = 0
    /\ aggReports = None
    /\ pc = "read"
    /\ written = <<>>
    /\ exc = "none"

MainIdle ==
    /\ files = <<>>
    /\ p = 0
    /\ aggReports = None
    /\ pc = "idle"
    /\ written = <<>>
    /\ exc = "none"

\* one pass of the loop over inPath.glob("*.csv")
ReadFile ==
    /\ pc = "read"
    /\ p < Len(files)
    /\ LET curr_df == files[p + 1]
       IN aggReports' = IF aggReports = None THEN DataFrame(curr_df)
                        ELSE DataFrame(aggReports.rows \o curr_df)
    /\ p' = p + 1
    /\ UNCHANGED <<files, pc, written, exc, brandVars, ageVars>>

\* after the loop: rename, to_datetime, reset_index, write clean_data.csv
WriteClean ==
    /\ pc = "read"
    /\ p = Len(files)
    /\ IF aggReports = None
       THEN Crash("AttributeError")
       ELSE /\ to_csv("clean_data.csv")
            /\ pc' = "brand"
            /\ UNCHANGED <<aggReports, exc>>
    /\ UNCHANGED <<files, p, brandVars, ageVars>>

\* aggReports["brand"] = aggReports.apply(brand_preprocess, axis=1)
MakeBrand ==
    /\ pc = "brand"
    /\ LET rows == aggReports.rows
           col == [i \in 1..Len(rows) |-> brand_preprocess(rows[i], DefaultTrim)]
       IN IF \E i \in 1..Len(col) : col[i].tag \notin {"str", "NA"}
          THEN Crash("IndexError")
          ELSE /\ aggReports' = DataFrame([i \in 1..Len(rows) |->
                     [product |-> rows[i].product,
                      category |-> rows[i].category,
                      patient_age |-> rows[i].patient_age,
                      age_units |-> rows[i].age_units,
                      outcomes |-> rows[i].outcomes,
                      brand |-> col[i]]])
               /\ pc' = "age"
               /\ UNCHANGED <<written, exc>>
    /\ UNCHANGED <<files, p, brandVars, ageVars>>

\* processed_data.csv is written before the ages are converted
ConvertAgeWritesFirst ==
    /\ pc = "age"
    /\ to_csv("processed_data.csv")
    /\ LET rows == aggReports.rows
           col == [i \in 1..Len(rows) |-> age_preprocess(rows[i])]
       IN IF \E i \in 1..Len(col) : col[i].tag /= "num"
          THEN /\ pc' = "crashed"
               /\ exc' = "KeyError"
               /\ UNCHANGED aggReports
          ELSE /\ aggReports' = DataFrame([i \in 1..Len(rows) |->
                     [product |-> rows[i].product,
                      category |-> rows[i].category,
                      patient_age |-> col[i].val,
                      outcomes |-> rows[i].outcomes,
                      brand |-> rows[i].brand]])
               /\ pc' = "explode"
               /\ exc' = exc
    /\ UNCHANGED <<files, p, brandVars, ageVars>>

\* patient_age = apply(age_preprocess), drop age_units, write processed_data.csv
ConvertAge ==
    /\ pc = "age"
    /\ LET rows == aggReports.rows
           col == [i \in 1..Len(rows) |-> age_preprocess(rows[i])]
       IN IF \E i \in 1..Len(col) : col[i].tag /= "num"
          THEN Crash("KeyError")
          ELSE /\ aggReports' = DataFrame([i \in 1..Len(rows) |->
                     [product |-> rows[i].product,
                      category |-> rows[i].category,
                      patient_age |-> col[i].val,
                      outcomes |-> rows[i].outcomes,
                      brand |-> rows[i].brand]])
               /\ to_csv("processed_data.csv")
               /\ pc' = "explode"
               /\ exc' = exc
    /\ UNCHANGED <<files, p, brandVars, ageVars>>

\* outcomes.apply(split), explode, reset_index, write exploded_data.csv
ExplodeOutcomes ==
    /\ pc = "explode"
    /\ IF \E i \in 1..Len(aggReports.rows) :
              aggReports.rows[i].outcomes = NoOutcomes
       THEN Crash("AttributeError")
       ELSE /\ to_csv("exploded_data.csv")
            /\ pc' = "time"
            /\ UNCHANGED <<aggReports, exc>>
    /\ UNCHANGED <<files, p, brandVars, ageVars>>

\* drop_duplicates, year column, rename, write clean_data_time.csv
WriteTime ==
    /\ pc = "time"
    /\ to_csv("clean_data_time.csv")
    /\ pc' = "explode_time"
    /\ UNCHANGED <<files, p, aggReports, exc, brandVars, ageVars>>

\* explode, strip, "Not Specified", reset_index, write exploded_data_time.csv
WriteExplodedTime ==
    /\ pc = "explode_time"
    /\ to_csv("exploded_data_time.csv")
    /\ pc' = "done"
    /\ UNCHANGED <<files, p, aggReports, exc, brandVars, ageVars>>

----------------------------------------------------------------------------
(* Specifications *)

Init == BrandIdle /\ AgeIdle /\ MainInit

Next ==
    \/ ReadFile
    \/ WriteClean
    \/ MakeBrand
    \/ ConvertAge
    \/ ExplodeOutcomes
    \/ WriteTime
    \/ WriteExplodedTime

Spec == Init /\ [][Next]_vars

SpecBrandInit == BrandInit /\ AgeIdle /\ MainIdle

SpecBrand == SpecBrandInit /\ [][BrandCall]_vars

SpecAgeInit == BrandIdle /\ AgeInit /\ MainIdle

SpecAge == SpecAgeInit /\ [][AgeCall]_vars

----------------------------------------------------------------------------
(* Properties of brand_preprocess, checked under SpecBrand *)

BrandReturned == brand /= NotCalled

ProductPresent == ~isna(row.product)

Min(a, b) == IF a < b THEN a ELSE b

\* C1: a present product that leaves at least one token yields, for the two
\* trim categories, the first min(trim_len, number of tokens) upper-cased
\* tokens joined by single spaces in their order, and for every other
\* (present) category exactly the first upper-cased token.
C1_BrandSelection ==
    (BrandReturned /\ ProductPresent /\ Len(NameList(row.product)) >= 1
        /\ row.category /= NaN)
    => LET tokens == NameList(row.product)
       IN IF row.category \in {"Nuts/Edible Seed",
                               "Vit/Min/Prot/Unconv Diet(Human/Animal)"}
          THEN brand = Str(Join(SubSeq(tokens, 1, Min(trim_len, Len(tokens)))))
          ELSE brand = Str(tokens[1])

\* three tokens cut to the default two in a trim category
C1_Witness ==
    /\ BrandReturned
    /\ row.category = "Vit/Min/Prot/Unconv Diet(Human/Animal)"
    /\ trim_len = 2
    /\ NameList(row.product) = <<<<"K">>, <<"K">>, <<"K">>>>
    /\ brand = Str(<<"K", " ", "K">>)

\* C5: an absent product yields the missing-value marker, for every category
\* and every trim_len, and nothing is computed from the product.
C5_AbsentProductIsMissing ==
    (BrandReturned /\ ~ProductPresent) => brand = Missing

C5_Witness ==
    /\ BrandReturned
    /\ ~ProductPresent
    /\ row.category = "Nuts/Edible Seed"
    /\ trim_len = 0
    /\ brand = Missing

\* C6: a brand string is returned only if neither product nor category is
\* missing.
C6_BrandOnlyIfBothPresent ==
    (BrandReturned /\ brand.tag = "str")
    => (ProductPresent /\ row.category /= NaN)

\* C7: when no token remains after stop-word filtering the result is the
\* empty string, for every category and every trim_len, and the empty token
\* list is never indexed.
C7_NoTokensIsEmptyString ==
    (BrandReturned /\ ProductPresent /\ Len(NameList(row.product)) = 0)
    => brand = Str(<<>>)

C7_Witness ==
    /\ BrandReturned
    /\ row.product = <<"a", " ", "A">>
    /\ row.category = "Cosmetics"
    /\ brand = Str(<<>>)

\* the words of the product: the non-empty runs between spaces, punctuation
\* dropped, lower-cased, that are not stop-words
Words(product) ==
    SelectSeq(Split(Lower(StripPunctuation(product))),
              LAMBDA w : w /= <<>> /\ w \notin stopwords)

IsPrefix(s, t) == Len(s) <= Len(t) /\ SubSeq(t, 1, Len(s)) = s

\* C10: every token of the result is non-empty, and a product with at least
\* one word that is not a stop-word yields a non-empty brand that starts
\* with the first such word, upper-cased (at least one token being asked for).
C10_BrandStartsWithFirstWord ==
    (BrandReturned /\ ProductPresent /\ trim_len >= 1
        /\ Len(Words(row.product)) >= 1)
    => /\ brand.tag = "str"
       /\ brand.val /= <<>>
       /\ IsPrefix(Upper(Words(row.product)[1]), brand.val)
       /\ \A i \in 1..Len(Split(brand.val)) : Split(brand.val)[i] /= <<>>

----------------------------------------------------------------------------
(* Properties of age_preprocess, checked under SpecAge *)

AgeReturned == age /= AgeNotCalled

\* the factors of the table rounded to 4 decimals, in units of 1/10000
RoundedFactor(unit) ==
    CASE unit = "month(s)" -> 833
      [] unit = "year(s)" -> 10000
      [] unit = "day(s)" -> 27
      [] unit = "Decade(s)" -> 100000
      [] unit = "week(s)" -> 192

\* C2: with age and unit present and the unit in the table, the result is the
\* age times the unit's factor rounded to 4 decimals; the product is not
\* rounded, and for year(s) the result is the input value.
C2_AgeTimesRoundedFactor ==
    (AgeReturned /\ ~arow.patient_age.na
        /\ arow.age_units \in {"month(s)", "year(s)", "day(s)", "Decade(s)",
                               "week(s)"})
    => /\ age = Num(arow.patient_age.v * RoundedFactor(arow.age_units))
       /\ arow.age_units = "year(s)" => age.val = arow.patient_age.v * 10000

\* 12 months are 0.9996 years, not 1
C2_Witness ==
    /\ AgeReturned
    /\ arow = [patient_age |-> Present(12), age_units |-> "month(s)"]
    /\ age = Num(9996)

\* C3: a missing age or a missing unit yields the sentinel -1, whatever the
\* other cell holds, without a lookup of the unit.
C3_MissingIsSentinel ==
    (AgeReturned /\ (arow.patient_age.na \/ arow.age_units = NaN))
    => age = Num(-10000)

\* a missing age with a unit the table does not hold
C3_Witness ==
    /\ AgeReturned
    /\ arow.patient_age.na
    /\ arow.age_units = "Not Available"
    /\ age = Num(-10000)

\* C4 as stated: each of the labels month(s), year(s), day(s), decade(s),
\* week(s) with a present age yields a number and raises nothing.
C4_SpecLabelsAccepted ==
    (AgeReturned /\ ~arow.patient_age.na
        /\ arow.age_units \in {"month(s)", "year(s)", "day(s)", "decade(s)",
                               "week(s)"})
    => (age.tag = "num" /\ age.val >= 0)

\* C4 amended: each of the labels month(s), year(s), day(s), Decade(s),
\* week(s) with a present age yields a non-negative number and raises
\* nothing; the lower-case label decade(s) raises KeyError.
C4_TableLabelsAccepted ==
    (AgeReturned /\ ~arow.patient_age.na)
    => /\ arow.age_units \in {"month(s)", "year(s)", "day(s)", "Decade(s)",
                              "week(s)"}
          => (age.tag = "num" /\ age.val >= 0)
       /\ arow.age_units = "decade(s)" => age.tag = "KeyError"

C4_Witness ==
    /\ AgeReturned
    /\ arow = [patient_age |-> Present(3), age_units |-> "Decade(s)"]
    /\ age = Num(300000)

----------------------------------------------------------------------------
(* Properties of main, checked under Spec *)

Wrote(name) == \E i \in 1..Len(written) : written[i] = name

InputRows == Concat(files)

\* C8: for every number of input files, zero and one included, the
\* aggregation ends with one table holding each row of each file once, and
\* the run goes on to write clean_data.csv.
C8_AggregatesAnyNumberOfFiles ==
    (pc /= "read")
    => /\ aggReports.df
       /\ Len(aggReports.rows) = Len(InputRows)
       /\ pc = "brand" => aggReports.rows = InputRows
       /\ Wrote("clean_data.csv")

====
